---- MODULE Spec2Model ----
(***************************************************************************)
(* Model of the insole geometry generator computeInsoleGeometry and of the *)
(* three.js objects it drives (Shape, ExtrudeGeometry, BufferAttribute).   *)
(*                                                                         *)
(* Numbers are exact rationals <<n, d>> in lowest terms with d > 0; the    *)
(* IEEE specials a division by zero produces are <<0,0>> (NaN), <<1,0>>    *)
(* (+Infinity) and <<-1,0>> (-Infinity).  Rounding of finite doubles is    *)
(* not modelled.                                                           *)
(***************************************************************************)
EXTENDS Integers, Sequences, FiniteSets, TLC

VARIABLES pc, params, shape, geom, result, prev, track, probe,
          page, memo, scene, user, submitted, app, old

vars == <<pc, params, shape, geom, result, prev, track, probe,
          page, memo, scene, user, submitted, app, old>>

\* The state of the React components OrderPage and InsoleMesh: the useState
\* cells of the page, the useMemo cell of InsoleMesh, the <mesh> object of
\* the scene, and the controls the person at the form uses; the form as it
\* was at each submission so far; the useState cell of App and the route
\* shown; the import toggle and the loaded GLTF of the old order page.
formVars == <<page, memo, scene, user, submitted, app, old>>

\* The state of an invocation of computeInsoleGeometry followed stage by stage.
callVars == <<pc, params, shape, geom, result, prev, track, probe>>

\* No page is mounted: computeInsoleGeometry is driven directly.
Unmounted ==
    /\ page = <<>>
    /\ memo = <<>>
    /\ scene = <<>>
    /\ user = <<>>
    /\ submitted = <<>>
    /\ app = <<>>
    /\ old = <<>>

(***************************************************************************)
(* Bounds of the input space.  Widths are multiples of 1/2, lengths are    *)
(* multiples of 1/2 and thicknesses multiples of 1/5, each from -1 unit    *)
(* (an invalid, negative dimension) through 0 up to the bound.             *)
(***************************************************************************)
MaxWidthHalves == 2
MaxLengthHalves == 4
MaxThicknessFifths == 7

\* Bounds of the single-vertex runs: the vertex has x = k/8 for |k| up to
\* MaxProbeX and z = k/20 for k from -1 up to MaxProbeZ.
MaxProbeX == 5
MaxProbeZ == 22

(***************************************************************************)
(* Rational arithmetic with the IEEE specials.                             *)
(***************************************************************************)
Abs(i) == IF i < 0 THEN -i ELSE i

RECURSIVE Gcd(_, _)
Gcd(a, b) == IF b = 0 THEN a ELSE Gcd(b, a % b)

Frac(n, d) ==
    LET g == Gcd(Abs(n), Abs(d))
    IN  IF d < 0 THEN <<(-n) \div g, (-d) \div g>> ELSE <<n \div g, d \div g>>

Num(i) == <<i, 1>>
NaN == <<0, 0>>
PosInf == <<1, 0>>
NegInf == <<-1, 0>>
IsNaN(a) == a = NaN
IsFinite(a) == a[2] # 0
SignOf(a) == IF a[1] > 0 THEN 1 ELSE IF a[1] < 0 THEN -1 ELSE 0

RNeg(a) == <<-a[1], a[2]>>

RAdd(a, b) ==
    IF IsFinite(a) /\ IsFinite(b)
    THEN LET g == Gcd(a[2], b[2])
         IN  Frac(a[1] * (b[2] \div g) + b[1] * (a[2] \div g), (a[2] \div g) * b[2])
    ELSE IF IsNaN(a) \/ IsNaN(b) THEN NaN
    ELSE IF ~IsFinite(a) /\ ~IsFinite(b) THEN (IF a = b THEN a ELSE NaN)
    ELSE IF IsFinite(a) THEN b ELSE a

RSub(a, b) == RAdd(a, RNeg(b))

RMul(a, b) ==
    IF IsFinite(a) /\ IsFinite(b)
    THEN LET g1 == Gcd(Abs(a[1]), b[2])
             g2 == Gcd(Abs(b[1]), a[2])
         IN  <<(a[1] \div g1) * (b[1] \div g2), (a[2] \div g2) * (b[2] \div g1)>>
    ELSE IF IsNaN(a) \/ IsNaN(b) \/ SignOf(a) = 0 \/ SignOf(b) = 0 THEN NaN
    ELSE <<SignOf(a) * SignOf(b), 0>>

RDiv(a, b) ==
    IF IsNaN(a) \/ IsNaN(b) THEN NaN
    ELSE IF IsFinite(a) /\ IsFinite(b)
    THEN IF b[1] = 0 THEN <<SignOf(a), 0>>
         ELSE RMul(a, Frac(b[2], b[1]))
    ELSE IF IsFinite(a) THEN Num(0)
    ELSE IF IsFinite(b) THEN <<SignOf(a) * (IF b[1] < 0 THEN -1 ELSE 1), 0>>
    ELSE NaN

RLess(a, b) ==
    IF IsNaN(a) \/ IsNaN(b) THEN FALSE
    ELSE IF IsFinite(a) /\ IsFinite(b)
    THEN LET g == Gcd(a[2], b[2])
         IN  a[1] * (b[2] \div g) < b[1] * (a[2] \div g)
    ELSE IF IsFinite(a) THEN b = PosInf
    ELSE IF IsFinite(b) THEN a = NegInf
    ELSE a = NegInf /\ b = PosInf

RLeq(a, b) == ~IsNaN(a) /\ ~IsNaN(b) /\ ~RLess(b, a)

MathAbs(a) == <<Abs(a[1]), a[2]>>
MathMin(a, b) == IF IsNaN(a) \/ IsNaN(b) THEN NaN ELSE IF RLess(b, a) THEN b ELSE a
MathMax(a, b) == IF IsNaN(a) \/ IsNaN(b) THEN NaN ELSE IF RLess(a, b) THEN b ELSE a

\* THREE.MathUtils.clamp(value, min, max) = Math.max(min, Math.min(max, value))
clamp(value, lo, hi) == MathMax(lo, MathMin(hi, value))

\* THREE.MathUtils.lerp(x, y, t) = (1 - t) * x + t * y
lerp(x, y, t) == RAdd(RMul(RSub(Num(1), t), x), RMul(t, y))

(***************************************************************************)
(* three.js Path / Shape: a list of cubic Bezier curves, each the tuple    *)
(* <<v0, v1, v2, v3>> of its 2D control points <<x, y>>.                   *)
(***************************************************************************)
NewShape == [curves |-> <<>>, currentPoint |-> <<Num(0), Num(0)>>]

MoveTo(path, x, y) == [path EXCEPT !.currentPoint = <<x, y>>]

BezierCurveTo(path, aCP1x, aCP1y, aCP2x, aCP2y, aX, aY) ==
    [curves |-> Append(path.curves,
                       <<path.currentPoint, <<aCP1x, aCP1y>>, <<aCP2x, aCP2y>>, <<aX, aY>>>>),
     currentPoint |-> <<aX, aY>>]

\* The decimal literal k/10 of the source (0.1, 0.3, ...).
Tenths(k) == Frac(k, 10)

halfWidthOf(width) == RDiv(width, Num(2))

heel == [x |-> Num(0), z |-> Num(0)]
arch(halfWidth, length) == [x |-> RMul(RNeg(halfWidth), Tenths(3)), z |-> RMul(length, Tenths(4))]
\* Variant of ball: the ball at six tenths of the half width.
ballWide(halfWidth, length) == [x |-> RMul(halfWidth, Tenths(6)), z |-> RMul(length, Tenths(7))]

ball(halfWidth, length) == [x |-> RMul(halfWidth, Tenths(5)), z |-> RMul(length, Tenths(7))]
toe(length) == [x |-> Num(0), z |-> length]

HeelToArch(s, halfWidth, length) ==
    BezierCurveTo(s,
        RMul(RNeg(halfWidth), Tenths(1)), RMul(length, Tenths(1)),
        RMul(RNeg(halfWidth), Tenths(3)), RMul(length, Tenths(3)),
        arch(halfWidth, length).x, arch(halfWidth, length).z)

ArchToBall(s, halfWidth, length) ==
    BezierCurveTo(s,
        RMul(RNeg(halfWidth), Tenths(5)), RMul(length, Tenths(5)),
        RMul(halfWidth, Tenths(5)), RMul(length, Tenths(6)),
        ball(halfWidth, length).x, ball(halfWidth, length).z)

BallToToe(s, halfWidth, length) ==
    BezierCurveTo(s,
        RMul(halfWidth, Tenths(5)), RMul(length, Tenths(8)),
        RMul(halfWidth, Tenths(2)), RMul(length, Tenths(9)),
        toe(length).x, toe(length).z)

\* Variant of ToeToOppositeBall: the first control point keeps the sign of
\* the Ball -> Toe segment it should mirror.
ToeToOppositeBallUnmirrored(s, halfWidth, length) ==
    BezierCurveTo(s,
        RMul(halfWidth, Tenths(2)), RMul(length, Tenths(9)),
        RMul(RNeg(halfWidth), Tenths(5)), RMul(length, Tenths(8)),
        RNeg(ball(halfWidth, length).x), ball(halfWidth, length).z)

ToeToOppositeBall(s, halfWidth, length) ==
    BezierCurveTo(s,
        RMul(RNeg(halfWidth), Tenths(2)), RMul(length, Tenths(9)),
        RMul(RNeg(halfWidth), Tenths(5)), RMul(length, Tenths(8)),
        RNeg(ball(halfWidth, length).x), ball(halfWidth, length).z)

OppositeBallToOppositeArch(s, halfWidth, length) ==
    BezierCurveTo(s,
        RMul(RNeg(halfWidth), Tenths(5)), RMul(length, Tenths(6)),
        RMul(halfWidth, Tenths(5)), RMul(length, Tenths(5)),
        RNeg(arch(halfWidth, length).x), arch(halfWidth, length).z)

\* Variant of OppositeArchToHeel: the segment ends on the heel's control
\* point instead of the heel.
OppositeArchToHeelOpen(s, halfWidth, length) ==
    BezierCurveTo(s,
        RMul(halfWidth, Tenths(3)), RMul(length, Tenths(3)),
        RMul(halfWidth, Tenths(1)), RMul(length, Tenths(1)),
        RMul(halfWidth, Tenths(1)), RMul(length, Tenths(1)))

OppositeArchToHeel(s, halfWidth, length) ==
    BezierCurveTo(s,
        RMul(halfWidth, Tenths(3)), RMul(length, Tenths(3)),
        RMul(halfWidth, Tenths(1)), RMul(length, Tenths(1)),
        heel.x, heel.z)

\* Steps 1 and 2 of computeInsoleGeometry: the anchors and the six segments.
InsoleShapeOn(base, width, length) ==
    LET hw == halfWidthOf(width)
        s0 == MoveTo(base, heel.x, heel.z)
        s1 == HeelToArch(s0, hw, length)
        s2 == ArchToBall(s1, hw, length)
        s3 == BallToToe(s2, hw, length)
        s4 == ToeToOppositeBall(s3, hw, length)
        s5 == OppositeBallToOppositeArch(s4, hw, length)
    IN  OppositeArchToHeel(s5, hw, length)

\* const shape = new Shape(); ... : the segments are laid on a fresh Shape.
InsoleShape(width, length) == InsoleShapeOn(NewShape, width, length)

(***************************************************************************)
(* Sampling of the shape, as ExtrudeGeometry requests it                   *)
(* (shape.extractPoints(curveSegments), curveSegments defaulting to 12).   *)
(***************************************************************************)
curveSegments == 12

\* three.js Interpolations.CubicBezier
CubicBezier(t, p0, p1, p2, p3) ==
    LET k == RSub(Num(1), t)
        b0 == RMul(RMul(RMul(k, k), k), p0)
        b1 == RMul(RMul(RMul(RMul(Num(3), k), k), t), p1)
        b2 == RMul(RMul(RMul(RMul(Num(3), k), t), t), p2)
        b3 == RMul(RMul(RMul(t, t), t), p3)
    IN  RAdd(RAdd(RAdd(b0, b1), b2), b3)

\* CubicBezierCurve.getPoint(t)
GetPoint(curve, t) ==
    <<CubicBezier(t, curve[1][1], curve[2][1], curve[3][1], curve[4][1]),
      CubicBezier(t, curve[1][2], curve[2][2], curve[3][2], curve[4][2])>>

\* Curve.getPoints(divisions): divisions + 1 points at t = d / divisions
GetPoints(curve, divisions) ==
    [d \in 1..(divisions + 1) |-> GetPoint(curve, Frac(d - 1, divisions))]

\* The inner loop of CurvePath.getPoints: a point equal to the last one kept is skipped.
RECURSIVE PushDistinct(_, _, _)
PushDistinct(points, pts, j) ==
    IF j > Len(pts) THEN points
    ELSE IF Len(points) > 0 /\ points[Len(points)] = pts[j]
         THEN PushDistinct(points, pts, j + 1)
         ELSE PushDistinct(Append(points, pts[j]), pts, j + 1)

RECURSIVE CurvesPoints(_, _, _, _)
CurvesPoints(points, curves, i, divisions) ==
    IF i > Len(curves) THEN points
    ELSE CurvesPoints(PushDistinct(points, GetPoints(curves[i], divisions), 1),
                      curves, i + 1, divisions)

\* CurvePath.getPoints(divisions) of a path that is not auto-closed
PathGetPoints(path, divisions) == CurvesPoints(<<>>, path.curves, 1, divisions)

(***************************************************************************)
(* three.js ExtrudeGeometry(shape, {depth, bevelEnabled: false, steps: 1}) *)
(* The geometry is non-indexed: its position buffer lists the three        *)
(* corners of every triangle, lid faces first (bottom layer, then top      *)
(* layer), side walls after; each entry is <<x, y, z>> with <<x, y>> a     *)
(* sampled shape point and z the extrusion offset (0 or depth).            *)
(***************************************************************************)
steps == 1

\* ShapeUtils.removeDupEndPts: the closing copy of the first point is dropped.
RemoveDupEndPts(points) ==
    IF Len(points) > 2 /\ points[Len(points)] = points[1]
    THEN SubSeq(points, 1, Len(points) - 1)
    ELSE points

\* Faces of a lid over a contour of vlen points, as triples of 0-based
\* contour indices.  The library triangulates by ear clipping; the fan below
\* stands for it: vlen - 2 triangles over the same contour vertices.
Triangulate(vlen) == [f \in 1..(IF vlen > 2 THEN vlen - 2 ELSE 0) |-> <<0, f, f + 1>>]

\* The placed vertices: the contour at z = 0, then at z = depth / steps * s.
PlaceVertices(contour, depth) ==
    [i \in 1..(2 * Len(contour)) |->
        IF i <= Len(contour)
        THEN <<contour[i][1], contour[i][2], Num(0)>>
        ELSE <<contour[i - Len(contour)][1], contour[i - Len(contour)][2],
               RMul(RDiv(depth, Num(steps)), Num(1))>>]

\* buildLidFaces: f3(face[2], face[1], face[0]) on the bottom layer, then
\* f3(face[0], face[1], face[2]) on the top layer (offset vlen * steps).
LidVertexRefs(faces, vlen) ==
    [e \in 1..(6 * Len(faces)) |->
        IF e <= 3 * Len(faces)
        THEN faces[((e - 1) \div 3) + 1][3 - ((e - 1) % 3)]
        ELSE faces[((e - 3 * Len(faces) - 1) \div 3) + 1][((e - 3 * Len(faces) - 1) % 3) + 1]
             + vlen * steps]

\* buildSideFaces / sidewalls: for i = vlen-1 down to 0, j = i, k = i - 1
\* (wrapping), the quad f4(a, b, c, d) = triangles (a, b, d) and (b, c, d).
SideVertexRefs(vlen) ==
    [e \in 1..(6 * vlen) |->
        LET i == vlen - 1 - ((e - 1) \div 6)
            j == i
            k == IF i - 1 < 0 THEN vlen - 1 ELSE i - 1
            a == j
            b == k
            c == k + vlen
            d == j + vlen
        IN  <<a, b, d, b, c, d>>[((e - 1) % 6) + 1]]

\* BufferGeometry.computeVertexNormals, abstracted: the normal attribute is
\* identified by the version of the position buffer it was computed from and
\* by the number of times it has been computed.
ComputeVertexNormals(g) ==
    [g EXCEPT !.normal = [ofVersion |-> g.version, computed |-> g.normal.computed + 1]]

ExtrudeGeometry(s, depth) ==
    LET vertices == PathGetPoints(s, curveSegments)
        contour == RemoveDupEndPts(vertices)
        vlen == Len(contour)
        faces == Triangulate(vlen)
        placed == PlaceVertices(contour, depth)
        lid == LidVertexRefs(faces, vlen)
        side == SideVertexRefs(vlen)
    IN  ComputeVertexNormals(
          [position |-> [e \in 1..(Len(lid) + Len(side)) |->
                            IF e <= Len(lid) THEN placed[lid[e] + 1]
                            ELSE placed[side[e - Len(lid)] + 1]],
           version  |-> 0,
           groups   |-> <<[start |-> 0, count |-> Len(lid), materialIndex |-> 0],
                          [start |-> Len(lid), count |-> Len(side), materialIndex |-> 1]>>,
           normal   |-> [ofVersion |-> 0, computed |-> 0]])

\* Buffer indices (1-based) of the three vertex groups of an extruded geometry.
BottomCapIndices(g) == 1..(g.groups[1].count \div 2)
TopCapIndices(g) == ((g.groups[1].count \div 2) + 1)..g.groups[1].count
SideWallIndices(g) == (g.groups[2].start + 1)..(g.groups[2].start + g.groups[2].count)

(***************************************************************************)
(* Step 4 of computeInsoleGeometry: the sculpting loop.                    *)
(***************************************************************************)
\* Math.abs(y - thickness) < 1e-6
SelectedBySculptor(v, thickness) ==
    RLess(MathAbs(RSub(v[2], thickness)), Frac(1, 1000000))

heelThick(thickness) == RMul(thickness, Tenths(8))
archThick(thickness) == RMul(thickness, Num(1))
\* Variant of foreThick: the forefoot breakpoint at half the thickness.
foreThickHalf(thickness) == RMul(thickness, Tenths(5))

foreThick(thickness) == RMul(thickness, Tenths(6))
\* Variant of toeThick: the toe at a tenth of the thickness.
toeThickTenth(thickness) == RMul(thickness, Tenths(1))

toeThick(thickness) == RMul(thickness, Tenths(2))
heelCupDepth(thickness) == RMul(thickness, Tenths(1))

\* 4a. t = clamp(z / length, 0, 1)
LengthParam(z, length) == clamp(RDiv(z, length), Num(0), Num(1))

\* 4b. the piecewise thickness profile
ProfileY(t, thickness) ==
    IF RLess(t, Tenths(3))
    THEN lerp(heelThick(thickness), archThick(thickness), RDiv(t, Tenths(3)))
    ELSE IF RLess(t, Tenths(7))
    THEN lerp(archThick(thickness), foreThick(thickness), RDiv(RSub(t, Tenths(3)), Tenths(4)))
    ELSE lerp(foreThick(thickness), toeThick(thickness), RDiv(RSub(t, Tenths(7)), Tenths(3)))

\* 4c. the heel-cup subtraction (zero outside the heel region)
InHeelRegion(t) == RLess(t, Frac(15, 100))

\* Variant of HeelCupFactor: the ratio |x| / halfWidth is not capped at 1.
HeelCupFactorUncapped(x, halfWidth) == RSub(Num(1), RDiv(MathAbs(x), halfWidth))

\* Variant of HeelCupFactor: |x| is divided by the full width.
HeelCupFactorFullWidth(x, halfWidth) ==
    RSub(Num(1), MathMin(RDiv(MathAbs(x), RMul(Num(2), halfWidth)), Num(1)))

HeelCupFactor(x, halfWidth) == RSub(Num(1), MathMin(RDiv(MathAbs(x), halfWidth), Num(1)))

HeelCup(t, x, halfWidth, thickness) ==
    IF InHeelRegion(t)
    THEN RMul(heelCupDepth(thickness), HeelCupFactor(x, halfWidth))
    ELSE Num(0)

\* Variant of SculptVertex: the vertex is moved half-way to the target.
SculptVertexHalfWay(v, width, length, thickness) ==
    IF SelectedBySculptor(v, thickness)
    THEN LET t == LengthParam(v[3], length)
             targetY == RSub(ProfileY(t, thickness),
                             HeelCup(t, v[1], halfWidthOf(width), thickness))
         IN  <<v[1], lerp(v[2], targetY, Frac(1, 2)), v[3]>>
    ELSE v

\* The body of the loop for one vertex <<x, y, z>>.
SculptVertex(v, width, length, thickness) ==
    IF SelectedBySculptor(v, thickness)
    THEN LET t == LengthParam(v[3], length)
             targetY == RSub(ProfileY(t, thickness),
                             HeelCup(t, v[1], halfWidthOf(width), thickness))
         IN  <<v[1], targetY, v[3]>>
    ELSE v

\* The loop over all vertexCount entries, then posAttr.needsUpdate = true.
SculptPositions(g, width, length, thickness) ==
    [g EXCEPT !.position = [i \in 1..Len(g.position) |->
                               SculptVertex(g.position[i], width, length, thickness)],
              !.version = g.version + 1]

(***************************************************************************)
(* The input space.                                                        *)
(***************************************************************************)
Widths == {Frac(w, 2) : w \in -1..MaxWidthHalves}
Lengths == {Frac(l, 2) : l \in -1..MaxLengthHalves}
Thicknesses == {Frac(t, 5) : t \in -1..MaxThicknessFifths}

AllParams ==
    [width : Widths, length : Lengths, thickness : Thicknesses, realistic : BOOLEAN]

\* The inputs of the runs that compare invocations with one another.
HistoryParams ==
    [width : {Num(1)}, length : {Num(1), Num(2)},
     thickness : {Frac(2, 5), Num(1)}, realistic : BOOLEAN]

ParamsFor(tracking) == IF tracking THEN HistoryParams ELSE AllParams

\* Dimensions, section 3 of the specification: all strictly positive.
ValidDimensions(p) ==
    /\ RLess(Num(0), p.width)
    /\ RLess(Num(0), p.length)
    /\ RLess(Num(0), p.thickness)

(***************************************************************************)
(* One invocation of computeInsoleGeometry, stage by stage.  shape and     *)
(* geom are the function's locals; result is the value handed back by the  *)
(* invocation that completed last.  In tracking runs prev records one       *)
(* earlier invocation (its arguments, the buffers it returned) and whether *)
(* an invocation, and one with other arguments, has started since.         *)
(***************************************************************************)
InitFor(tracking) ==
    /\ track = tracking
    /\ pc = "called"
    /\ params \in ParamsFor(tracking)
    /\ shape = <<>>
    /\ geom = <<>>
    /\ result = <<>>
    /\ prev = <<>>
    /\ probe = <<>>
    /\ Unmounted

Init == InitFor(FALSE)

InitHistory == InitFor(TRUE)

\* computeInsoleGeometry(params) is entered.
Invoke(p) ==
    /\ pc = "idle"
    /\ pc' = "called"
    /\ params' = p
    /\ geom' = <<>>
    /\ result' = <<>>
    /\ prev' = IF prev = <<>> THEN prev
               ELSE <<[prev[1] EXCEPT !.again = TRUE,
                                      !.other = @ \/ p # prev[1].params]>>
    /\ UNCHANGED <<shape, track, probe>>
    /\ UNCHANGED formVars

\* Variant of BuildShape: the Shape object is kept between invocations and
\* the segments are added to it.
BuildShapeShared ==
    /\ pc = "called"
    /\ shape' = <<InsoleShapeOn(IF shape = <<>> THEN NewShape ELSE shape[1],
                                params.width, params.length)>>
    /\ pc' = "shaped"
    /\ UNCHANGED <<params, geom, result, prev, track, probe>>
    /\ UNCHANGED formVars

\* Steps 1-2: a new Shape with the six Bezier segments.
BuildShape ==
    /\ pc = "called"
    /\ shape' = <<InsoleShape(params.width, params.length)>>
    /\ pc' = "shaped"
    /\ UNCHANGED <<params, geom, result, prev, track, probe>>
    /\ UNCHANGED formVars

\* Step 3: new ExtrudeGeometry(shape, {depth: thickness, ...}).
Extrude ==
    /\ pc = "shaped"
    /\ geom' = <<ExtrudeGeometry(shape[1], params.thickness)>>
    /\ pc' = "extruded"
    /\ UNCHANGED <<params, shape, result, prev, track, probe>>
    /\ UNCHANGED formVars

\* Step 4 (realistic only): the vertex loop and posAttr.needsUpdate = true.
Sculpt ==
    /\ pc = "extruded"
    /\ params.realistic
    /\ geom' = <<SculptPositions(geom[1], params.width, params.length, params.thickness)>>
    /\ pc' = "sculpted"
    /\ UNCHANGED <<params, shape, result, prev, track, probe>>
    /\ UNCHANGED formVars

\* Variant of RecomputeNormals: the realistic branch ends without the call.
RecomputeNormalsSkipped ==
    /\ pc = "sculpted"
    /\ pc' = "normals"
    /\ UNCHANGED <<params, shape, geom, result, prev, track, probe>>
    /\ UNCHANGED formVars

\* geom.computeVertexNormals() at the end of the realistic branch.
RecomputeNormals ==
    /\ pc = "sculpted"
    /\ geom' = <<ComputeVertexNormals(geom[1])>>
    /\ pc' = "normals"
    /\ UNCHANGED <<params, shape, result, prev, track, probe>>
    /\ UNCHANGED formVars

\* return geom
Return ==
    /\ \/ pc = "normals"
       \/ pc = "extruded" /\ ~params.realistic
    /\ result' = <<[kind |-> "Mesh", params |-> params, geom |-> geom[1]]>>
    /\ geom' = <<>>
    /\ pc' = "idle"
    /\ \E remember \in (IF track /\ prev = <<>> THEN BOOLEAN ELSE {FALSE}) :
          prev' = IF remember
                  THEN <<[params |-> params, position |-> geom[1].position,
                          groups |-> geom[1].groups, again |-> FALSE, other |-> FALSE]>>
                  ELSE prev
    /\ UNCHANGED <<params, shape, track, probe>>
    /\ UNCHANGED formVars

Next ==
    \/ \E p \in ParamsFor(track) : Invoke(p)
    \/ BuildShape
    \/ Extrude
    \/ Sculpt
    \/ RecomputeNormals
    \/ Return

Spec == Init /\ [][Next]_vars

SpecHistory == InitHistory /\ [][Next]_vars

(***************************************************************************)
(* The body of the sculpting loop applied to one vertex: the arguments and *)
(* the vertex <<x, y, z>> are drawn from a grid, y at, near or away from   *)
(* thickness.                                                              *)
(***************************************************************************)
MaxPasses == 2

ProbeParams ==
    [width : {Frac(1, 2), Num(1)}, length : {Num(1), Num(2)},
     thickness : {Frac(2, 5), Num(1)}, realistic : {TRUE}]

ProbeVertices(thickness) ==
    {<<Frac(kx, 8), y, Frac(kz, 20)>> :
        kx \in (-MaxProbeX)..MaxProbeX,
        y \in {thickness,
               RAdd(thickness, Frac(1, 2000000)),
               RSub(thickness, Frac(1, 1000000)),
               Num(0)},
        kz \in -1..MaxProbeZ}

InitProbe ==
    /\ track = FALSE
    /\ pc = "probe"
    /\ params \in ProbeParams
    /\ shape = <<>>
    /\ geom = <<>>
    /\ result = <<>>
    /\ prev = <<>>
    /\ \E v \in ProbeVertices(params.thickness) : probe = [v |-> v, out |-> <<>>]
    /\ Unmounted

\* One iteration of the loop on the vertex; in a further pass of the loop,
\* on what the pass before left.  probe.out[k] is the vertex after pass k.
ApplySculptVertex ==
    /\ pc = "probe"
    /\ Len(probe.out) < MaxPasses
    /\ probe' = [probe EXCEPT
                   !.out = Append(@, SculptVertex(IF @ = <<>> THEN probe.v ELSE @[Len(@)],
                                                  params.width, params.length,
                                                  params.thickness))]
    /\ UNCHANGED <<pc, params, shape, geom, result, prev, track>>
    /\ UNCHANGED formVars

NextProbe == ApplySculptVertex

SpecProbe == InitProbe /\ [][NextProbe]_vars

(***************************************************************************)
(* Properties of the sculpting step on one vertex (SpecProbe).             *)
(***************************************************************************)
\* The line through (t0, f0 * thickness) and (t1, f1 * thickness), at t.
LineThrough(t, t0, f0, t1, f1, thickness) ==
    RAdd(RMul(f0, thickness),
         RMul(RMul(RSub(f1, f0), thickness), RDiv(RSub(t, t0), RSub(t1, t0))))

\* h: piecewise linear through (0, 0.8), (0.3, 1.0), (0.7, 0.6), (1.0, 0.2) times thickness.
ProfileThrough(t, thickness) ==
    IF RLeq(t, Tenths(3))
    THEN LineThrough(t, Num(0), Tenths(8), Tenths(3), Num(1), thickness)
    ELSE IF RLeq(t, Tenths(7))
    THEN LineThrough(t, Tenths(3), Num(1), Tenths(7), Tenths(6), thickness)
    ELSE LineThrough(t, Tenths(7), Tenths(6), Num(1), Tenths(2), thickness)

\* t = z / length cut to [0, 1]
NormalizedLength(z, length) ==
    LET q == RDiv(z, length)
    IN  IF RLess(q, Num(0)) THEN Num(0) ELSE IF RLess(Num(1), q) THEN Num(1) ELSE q

ProbeDone == pc = "probe" /\ probe.out # <<>>
ProbeSelected == ProbeDone /\ SelectedBySculptor(probe.v, params.thickness)
ProbeT == NormalizedLength(probe.v[3], params.length)
\* What was taken off the profile height of the probed vertex.
ProbeSubtracted == RSub(ProfileThrough(ProbeT, params.thickness), probe.out[1][2])

\* C1: a vertex the sculptor selects gets y = h(t) before the heel-cup
\* subtraction, with t = clamp(z / length, 0, 1) and h piecewise linear
\* through (0, 0.8 T), (0.3, 1.0 T), (0.7, 0.6 T), (1.0, 0.2 T).
C1_ProfileHeight ==
    (ProbeSelected /\ ValidDimensions(params)) =>
        RAdd(probe.out[1][2],
             HeelCup(ProbeT, probe.v[1], halfWidthOf(params.width), params.thickness))
          = ProfileThrough(ProbeT, params.thickness)

C1_Witness ==
    /\ ProbeSelected
    /\ ValidDimensions(params)
    /\ RLess(Tenths(7), ProbeT)
    /\ RLess(ProbeT, Num(1))
    /\ probe.out[1][2] # probe.v[2]

\* C2: the heel-cup subtraction is made iff t < 0.15; its amount is
\* 0.10 T (1 - min(|x| / halfWidth, 1)): 0.10 T at x = 0, nothing once
\* |x| >= halfWidth, and nothing at all for t >= 0.15.
C2_HeelCupAmount ==
    ProbeSelected =>
        LET hw == halfWidthOf(params.width)
            ax == MathAbs(probe.v[1])
            tenth == RDiv(params.thickness, Num(10))
        IN  IF RLess(ProbeT, Frac(15, 100))
            THEN /\ RLeq(hw, ax) => ProbeSubtracted = Num(0)
                 /\ RLess(ax, hw) =>
                       ProbeSubtracted = RMul(tenth, RDiv(RSub(hw, ax), hw))
                 /\ probe.v[1] = Num(0) => ProbeSubtracted = tenth
            ELSE ProbeSubtracted = Num(0)

C2_Witness ==
    /\ ProbeSelected
    /\ RLess(ProbeT, Frac(15, 100))
    /\ RLess(Num(0), ProbeT)
    /\ RLess(Num(0), MathAbs(probe.v[1]))
    /\ RLess(MathAbs(probe.v[1]), halfWidthOf(params.width))
    /\ RLess(Num(0), ProbeSubtracted)

(***************************************************************************)
(* Properties of the outline and of the extruded mesh (Spec).              *)
(***************************************************************************)
\* The flat extrusion for the current arguments, for comparison.
FlatGeometry == ExtrudeGeometry(InsoleShape(params.width, params.length), params.thickness)

Returned == pc = "idle" /\ result # <<>>

\* C3: with the relief flag false and valid dimensions, every vertex of the
\* returned mesh has 0 <= y <= thickness, every top-cap vertex has
\* y = thickness and every bottom-cap vertex has y = 0.
C3_FlatExtrudeHeights ==
    (Returned /\ ~params.realistic /\ ValidDimensions(params)) =>
        LET g == result[1].geom
        IN  \A i \in DOMAIN g.position :
               /\ RLeq(Num(0), g.position[i][2])
               /\ RLeq(g.position[i][2], params.thickness)
               /\ i \in TopCapIndices(g) => g.position[i][2] = params.thickness
               /\ i \in BottomCapIndices(g) => g.position[i][2] = Num(0)

\* C4: the sculptor leaves every bottom-cap vertex and every side-wall
\* vertex where the flat extrusion put it.
C4_OnlyTopCapSculpted ==
    (pc = "sculpted" /\ ValidDimensions(params)) =>
        LET g == geom[1]
            flat == FlatGeometry
        IN  \A i \in BottomCapIndices(g) \cup SideWallIndices(g) :
               g.position[i] = flat.position[i]

\* C5: the mesh returned with the relief flag true differs from the flat
\* mesh for the same dimensions only in the y of top-cap vertices (and in
\* the normals): same vertex count, same faces, same x and z everywhere.
C5_ReliefKeepsTopology ==
    (Returned /\ params.realistic /\ ValidDimensions(params)) =>
        LET g == result[1].geom
            flat == FlatGeometry
        IN  /\ Len(g.position) = Len(flat.position)
            /\ g.groups = flat.groups
            /\ \A i \in DOMAIN g.position :
                  /\ g.position[i][1] = flat.position[i][1]
                  /\ g.position[i][3] = flat.position[i][3]
                  /\ i \notin TopCapIndices(g) => g.position[i][2] = flat.position[i][2]

\* C6: with a dimension <= 0 the computation is refused with
\* InvalidDimension before any outline, extrusion or sculpting work, and no
\* mesh is produced.
C6_InvalidDimensionRefused ==
    (pc # "probe" /\ ~ValidDimensions(params)) =>
        /\ pc \in {"called", "idle"}
        /\ Returned => result[1].kind = "InvalidDimension"

\* The sampled outline on the integer grid of its samples: x in units of
\* halfWidth / (10 * curveSegments^3), z in units of length / (10 * curveSegments^3).
GridCoordinate(c, unit) ==
    RMul(RDiv(c, unit), Num(10 * curveSegments * curveSegments * curveSegments))[1]

SampledOutline == PathGetPoints(shape[1], curveSegments)

OutlineOnGrid ==
    LET pts == SampledOutline
    IN  [i \in DOMAIN pts |->
            <<GridCoordinate(pts[i][1], halfWidthOf(params.width)),
              GridCoordinate(pts[i][2], params.length)>>]

Orientation(a, b, c) ==
    LET v == (b[1] - a[1]) * (c[2] - a[2]) - (b[2] - a[2]) * (c[1] - a[1])
    IN  IF v > 0 THEN 1 ELSE IF v < 0 THEN -1 ELSE 0

Between(u, lo, hi) == (lo <= u /\ u <= hi) \/ (hi <= u /\ u <= lo)

OnSegment(a, b, c) == Between(c[1], a[1], b[1]) /\ Between(c[2], a[2], b[2])

SegmentsMeet(a, b, c, d) ==
    LET o1 == Orientation(a, b, c)
        o2 == Orientation(a, b, d)
        o3 == Orientation(c, d, a)
        o4 == Orientation(c, d, b)
    IN  \/ o1 # o2 /\ o3 # o4
        \/ o1 = 0 /\ OnSegment(a, b, c)
        \/ o2 = 0 /\ OnSegment(a, b, d)
        \/ o3 = 0 /\ OnSegment(c, d, a)
        \/ o4 = 0 /\ OnSegment(c, d, b)

\* C7: for valid dimensions the sampled outline is simple: two of its
\* segments that are not neighbours have no point in common.
C7_OutlineSimple ==
    (pc = "shaped" /\ ValidDimensions(params)) =>
        LET pts == OutlineOnGrid
            n == Len(pts) - 1
        IN  \A i \in 1..n : \A j \in (i + 2)..n :
               (i = 1 /\ j = n) \/ ~SegmentsMeet(pts[i], pts[i + 1], pts[j], pts[j + 1])

Mirror(pt) == <<RNeg(pt[1]), pt[2]>>

\* C8: for valid dimensions the mirror image (-x, z) of every sampled
\* outline point is a sampled outline point, and the control points of
\* segment k mirrored are those of segment 7 - k in reverse order.
C8_OutlineSymmetric ==
    (pc = "shaped" /\ ValidDimensions(params)) =>
        LET pts == SampledOutline
            curves == shape[1].curves
        IN  /\ \A i \in DOMAIN pts : \E j \in DOMAIN pts : pts[j] = Mirror(pts[i])
            /\ \A k \in 1..6 : \A c \in 1..4 : curves[7 - k][5 - c] = Mirror(curves[k][c])

C8_Witness ==
    /\ pc = "shaped"
    /\ ValidDimensions(params)
    /\ Len(shape[1].curves) = 6
    /\ \E i \in DOMAIN SampledOutline : SampledOutline[i][1] # Num(0)

\* C9: for valid dimensions the sampled outline starts and ends exactly on
\* the heel (0, 0), and every segment starts where the one before it ends.
C9_OutlineClosed ==
    (pc = "shaped" /\ ValidDimensions(params)) =>
        LET pts == SampledOutline
            curves == shape[1].curves
        IN  /\ pts[1] = <<Num(0), Num(0)>>
            /\ pts[Len(pts)] = <<Num(0), Num(0)>>
            /\ \A k \in 1..(Len(curves) - 1) : curves[k + 1][1] = curves[k][4]

C9_Witness ==
    /\ pc = "shaped"
    /\ ValidDimensions(params)
    /\ Len(SampledOutline) = 6 * curveSegments + 1
    /\ SampledOutline[3 * curveSegments + 1] = <<Num(0), params.length>>

(***************************************************************************)
(* Properties of sequences of invocations (SpecHistory).                   *)
(***************************************************************************)
\* C10: an invocation returns the position buffer and the faces that an
\* earlier invocation with the same arguments returned, whatever was
\* invoked in between.
C10_HistoryIndependent ==
    (Returned /\ prev # <<>> /\ result[1].params = prev[1].params) =>
        /\ result[1].geom.position = prev[1].position
        /\ result[1].geom.groups = prev[1].groups

C10_Witness ==
    /\ Returned
    /\ prev # <<>>
    /\ prev[1].other
    /\ result[1].params = prev[1].params
    /\ params.realistic
    /\ result[1].geom.position # FlatGeometry.position


(***************************************************************************)
(* The React layer: OrderPage (useState cells, event handlers,             *)
(* computePreviewParams) and InsoleMesh (useMemo, useFrame, <mesh>).       *)
(* JavaScript runs an event handler and the re-render it schedules to      *)
(* completion before the next event or animation frame, so each handler    *)
(* with its re-render is one step.  At this level a geometry is the object *)
(* computeInsoleGeometry returns, without its buffers: its identity, the   *)
(* arguments it was built from, the version of its position attribute and  *)
(* the state of its normals.  The buffers of such an object are those the  *)
(* staged invocation above computes for the same arguments.                *)
(***************************************************************************)
TextFields == {"firstName", "lastName", "email", "shoeType", "shoeSize"}
RequiredFields == {"firstName", "lastName", "email"}
WidthOptions == {"Narrow", "Medium", "Wide"}
ThicknessOptions == {"Thin", "Thick"}
ColourOptions == {"Black", "Grey", "Blue", "Red"}

\* The slider positions tried are the multiples of SliderStride in 0..100.
SliderStride == 50
SliderValues == {v \in 0..100 : v % SliderStride = 0}

\* Animation frames and submissions followed in one run, and the number of
\* geometry identities told apart (at most two geometries are alive at once).
MaxFrames == 1
MaxSubmits == 1
MaxLiveGeometries == 2

\* Submissions followed in the runs of one who orders again and again.
MaxOrders == 6

\* What is typed into a text field: nothing or one well-formed value.
TextValues(field) == {"", IF field = "email" THEN "a@b" ELSE "a"}

\* The useState initial values.
InitialPage ==
    [firstName |-> "", lastName |-> "", email |-> "", shoeType |-> "",
     shoeSize |-> "", recentSubmissions |-> <<>>, lengthVal |-> 50,
     widthVal |-> "Medium", thicknessVal |-> "Thin", colourVal |-> "Black",
     realistic |-> FALSE]

\* Variant of computePreviewParams: the slider is mapped onto 0 .. 2.5.
computePreviewParamsFromZero(pg) ==
    [dimensions |-> <<IF pg.widthVal = "Narrow" THEN Frac(3, 4)
                      ELSE IF pg.widthVal = "Wide" THEN Frac(5, 4)
                      ELSE Num(1),
                      IF pg.thicknessVal = "Thick" THEN Frac(2, 5) ELSE Frac(1, 5),
                      RMul(RDiv(Num(pg.lengthVal), Num(100)), Frac(5, 2))>>,
     color |-> "#000000"]

computePreviewParams(pg) ==
    LET width3D == IF pg.widthVal = "Narrow" THEN Frac(3, 4)
                   ELSE IF pg.widthVal = "Wide" THEN Frac(5, 4)
                   ELSE Num(1)
        length3D == RAdd(Num(1), RMul(RDiv(Num(pg.lengthVal), Num(100)), Frac(3, 2)))
        thickness3D == IF pg.thicknessVal = "Thick" THEN Frac(2, 5) ELSE Frac(1, 5)
        colorHex == IF pg.colourVal = "Grey" THEN "#777777"
                    ELSE IF pg.colourVal = "Blue" THEN "#1E90FF"
                    ELSE IF pg.colourVal = "Red" THEN "#DC143C"
                    ELSE "#000000"
    IN  [dimensions |-> <<width3D, thickness3D, length3D>>, color |-> colorHex]

\* The props OrderPage passes to <InsoleMesh>.
InsoleMeshProps(pg) ==
    LET preview == computePreviewParams(pg)
    IN  [width3D |-> preview.dimensions[1],
         length3D |-> preview.dimensions[3],
         thickness3D |-> preview.dimensions[2],
         colorHex |-> preview.color,
         realistic |-> pg.realistic]

\* new ExtrudeGeometry(...) as an object: a new identity, position version 0,
\* normals computed by the constructor.
NewExtrudeGeometry(id, p) ==
    ComputeVertexNormals([id |-> id, params |-> p, version |-> 0,
                          normal |-> [ofVersion |-> 0, computed |-> 0]])

\* The vertex loop writes into the position attribute of g and sets
\* needsUpdate, which advances the attribute's version.
SculptObject(g) == [g EXCEPT !.version = g.version + 1]

\* computeInsoleGeometry as seen by its caller.
computeInsoleGeometry(id, p) ==
    LET geometry == NewExtrudeGeometry(id, p)
    IN  IF p.realistic THEN ComputeVertexNormals(SculptObject(geometry))
        ELSE geometry

\* The identity of the next geometry allocated after the one in the cell.
FreshId(cell) == IF cell = <<>> THEN 0 ELSE (cell[1].value.id + 1) % MaxLiveGeometries

\* The dependency array of the useMemo call and the arguments built from it.
DepsOf(props) == <<props.width3D, props.length3D, props.thickness3D, props.realistic>>

ArgsOf(deps) ==
    [width |-> deps[1], length |-> deps[2], thickness |-> deps[3], realistic |-> deps[4]]


\* Variant of useMemo: when only the flag differs from the remembered
\* dependencies, the remembered geometry is kept and sculpted where it is.
useMemoInPlace(cell, deps) ==
    IF cell = <<>>
    THEN <<[deps |-> deps, value |-> computeInsoleGeometry(FreshId(cell), ArgsOf(deps))]>>
    ELSE IF cell[1].deps = deps THEN cell
    ELSE IF SubSeq(cell[1].deps, 1, 3) = SubSeq(deps, 1, 3)
    THEN <<[deps |-> deps,
            value |-> IF deps[4] THEN ComputeVertexNormals(SculptObject(cell[1].value))
                      ELSE cell[1].value]>>
    ELSE <<[deps |-> deps, value |-> computeInsoleGeometry(FreshId(cell), ArgsOf(deps))]>>

\* Variant of useMemo: the dependency array lacks the flag.
useMemoWithoutFlag(cell, deps) ==
    IF cell = <<>> \/ SubSeq(cell[1].deps, 1, 3) # SubSeq(deps, 1, 3)
    THEN <<[deps |-> deps, value |-> computeInsoleGeometry(FreshId(cell), ArgsOf(deps))]>>
    ELSE cell

\* Variant of useMemo: the factory runs on every render.
useMemoEveryRender(cell, deps) ==
    <<[deps |-> deps, value |-> computeInsoleGeometry(FreshId(cell), ArgsOf(deps))]>>

\* useMemo(() => computeInsoleGeometry({...}), deps): the factory runs on the
\* first render and whenever a dependency differs from the remembered one.
useMemo(cell, deps) ==
    IF cell = <<>> \/ cell[1].deps # deps
    THEN <<[deps |-> deps, value |-> computeInsoleGeometry(FreshId(cell), ArgsOf(deps))]>>
    ELSE cell

\* A render of InsoleMesh and its commit: <mesh geometry={geometry}> with
\* <meshStandardMaterial color={colorHex}>.
RenderInsoleMesh(props) ==
    /\ memo' = useMemo(memo, DepsOf(props))
    /\ scene' = [scene EXCEPT !.geometry = memo'[1].value.id, !.color = props.colorHex]

\* The scene after the first render of InsoleMesh with props.
MountedWith(props) ==
    /\ memo = useMemo(<<>>, DepsOf(props))
    /\ scene = [geometry |-> memo[1].value.id, color |-> props.colorHex, rotation |-> 0]

\* The controls the person at the form uses and the number of submissions
\* followed: one who explores the preview, one who places orders, one who
\* describes the shoe, one who orders again and again in black or red.
Explorer ==
    [fields |-> {}, sliders |-> SliderValues, widths |-> WidthOptions,
     thicknesses |-> ThicknessOptions, colours |-> ColourOptions, toggles |-> TRUE,
     submits |-> 0]

Customer ==
    [fields |-> RequiredFields, sliders |-> {v \in SliderValues : v >= 50},
     widths |-> {"Medium", "Wide"}, thicknesses |-> {"Thin"},
     colours |-> {"Black", "Red"}, toggles |-> TRUE, submits |-> MaxSubmits]

Describer ==
    [fields |-> TextFields \ RequiredFields, sliders |-> {}, widths |-> {},
     thicknesses |-> {}, colours |-> ColourOptions, toggles |-> FALSE,
     submits |-> 0]

Regular ==
    [fields |-> RequiredFields, sliders |-> {}, widths |-> {},
     thicknesses |-> {}, colours |-> {"Black", "Red"}, toggles |-> FALSE,
     submits |-> MaxOrders]

FormUsers == {Explorer, Customer, Describer, Regular}

\* The props InsoleMesh is rendered with when it is driven directly.
MeshProps ==
    [width3D : {Num(0), Num(1)}, length3D : {Num(1), Num(2)},
     thickness3D : {Frac(1, 5), Frac(2, 5)}, colorHex : {"#000000", "#DC143C"},
     realistic : BOOLEAN]

NoCall ==
    /\ params = <<>>
    /\ shape = <<>>
    /\ geom = <<>>
    /\ result = <<>>
    /\ prev = <<>>
    /\ track = FALSE
    /\ probe = <<>>

\* OrderPage after its first render.
InitForm ==
    /\ pc = "mounted"
    /\ NoCall
    /\ page = InitialPage
    /\ user \in FormUsers
    /\ MountedWith(InsoleMeshProps(InitialPage))
    /\ submitted = <<>>
    /\ app = <<>>
    /\ old = <<>>

\* InsoleMesh alone after its first render.
InitMesh ==
    /\ pc = "mesh"
    /\ NoCall
    /\ page = <<>>
    /\ user = <<>>
    /\ \E props \in MeshProps : MountedWith(props)
    /\ submitted = <<>>
    /\ app = <<>>
    /\ old = <<>>


\* The old order page (pages/old).  Its state is that of OrderPage plus
\* the useImportedModel cell; o.gltf is what useGLTF returned: nothing, or
\* an object with or without a scene.
GLTFs == {<<>>, [scene |-> FALSE], [scene |-> TRUE]}

\* Variant of ShowsImported: the loaded GLTF is not looked at.
ShowsImportedUnchecked(o) == o.useImportedModel

\* useImportedModel && gltf?.scene
ShowsImported(o) == o.useImportedModel /\ o.gltf # <<>> /\ o.gltf.scene

\* What the old InsoleMesh returns for the scene: the <primitive> of the
\* imported model or the <mesh> of the procedural geometry.
OldElement(props, o, geometry, rotation) ==
    IF ShowsImported(o)
    THEN [primitive |-> "gltf.scene.children[0]",
          scale |-> <<props.width3D, props.length3D, props.thickness3D>>,
          color |-> props.colorHex, rotation |-> rotation]
    ELSE [geometry |-> geometry.id, color |-> props.colorHex, rotation |-> rotation]

\* A render of the old InsoleMesh and its commit.
RenderOldInsoleMesh(props, o) ==
    /\ memo' = useMemo(memo, DepsOf(props))
    /\ scene' = OldElement(props, o, memo'[1].value, scene.rotation)

\* One who tries the controls of the preview, one way each, and one who
\* orders a wide insole.
Visitor ==
    [fields |-> {}, sliders |-> {v \in SliderValues : v < 50}, widths |-> {},
     thicknesses |-> {"Thick"}, colours |-> {"Red"}, toggles |-> TRUE,
     submits |-> 0]

Buyer ==
    [fields |-> RequiredFields, sliders |-> {}, widths |-> {"Wide"},
     thicknesses |-> {}, colours |-> {}, toggles |-> TRUE,
     submits |-> MaxSubmits]

PageUsers == {Visitor, Buyer}

\* Either order page after its first render: the current one, or the old
\* one, where useImportedModel starts true.
InitPages ==
    /\ pc = "mounted"
    /\ NoCall
    /\ page = InitialPage
    /\ user \in PageUsers
    /\ old \in {<<>>} \cup [useImportedModel : {TRUE}, gltf : GLTFs]
    /\ memo = useMemo(<<>>, DepsOf(InsoleMeshProps(InitialPage)))
    /\ scene = IF old = <<>>
               THEN [geometry |-> memo[1].value.id,
                     color |-> InsoleMeshProps(InitialPage).colorHex, rotation |-> 0]
               ELSE OldElement(InsoleMeshProps(InitialPage), old, memo[1].value, 0)
    /\ submitted = <<>>
    /\ app = <<>>

\* A state update of the page followed by the re-render it causes; o is
\* the state of the old page's import toggle (<<>> on the current page).
SetState(pg, o) ==
    /\ pc = "mounted"
    /\ page' = pg
    /\ old' = o
    /\ IF o = <<>>
       THEN RenderInsoleMesh(InsoleMeshProps(pg))
       ELSE RenderOldInsoleMesh(InsoleMeshProps(pg), o)
    /\ UNCHANGED <<user, app>>
    /\ UNCHANGED callVars

\* A state update made by a control other than the submit button.
Update(pg) ==
    /\ SetState(pg, old)
    /\ UNCHANGED submitted

\* onChange of a text input: setFirstName, setLastName, setEmail,
\* setShoeType, setShoeSize.
SetText(field, value) ==
    /\ pc = "mounted"
    /\ field \in user.fields
    /\ value # page[field]
    /\ Update([page EXCEPT ![field] = value])

SetLengthVal(v) ==
    /\ pc = "mounted"
    /\ v \in user.sliders
    /\ v # page.lengthVal
    /\ Update([page EXCEPT !.lengthVal = v])

SetWidthVal(w) ==
    /\ pc = "mounted"
    /\ w \in user.widths
    /\ w # page.widthVal
    /\ Update([page EXCEPT !.widthVal = w])

SetThicknessVal(t) ==
    /\ pc = "mounted"
    /\ t \in user.thicknesses
    /\ t # page.thicknessVal
    /\ Update([page EXCEPT !.thicknessVal = t])

SetColourVal(c) ==
    /\ pc = "mounted"
    /\ c \in user.colours
    /\ c # page.colourVal
    /\ Update([page EXCEPT !.colourVal = c])

\* onChange of the checkbox: e.target.checked is the opposite of the
\* displayed value.
SetRealistic ==
    /\ user.toggles
    /\ Update([page EXCEPT !.realistic = ~page.realistic])

\* Variant of Prepend: the list is not cut.
PrependUncut(orderData, submissions) == <<orderData>> \o submissions

\* [orderData, ...prev].slice(0, 5)
Prepend(orderData, submissions) ==
    LET all == <<orderData>> \o submissions
    IN  SubSeq(all, 1, IF Len(all) < 5 THEN Len(all) ELSE 5)

\* Variant of ResetFields: the selects keep their values.
ResetTextFields(pg) ==
    [pg EXCEPT !.firstName = "", !.lastName = "", !.email = "",
               !.shoeType = "", !.shoeSize = "", !.lengthVal = 50]

\* Variant of ResetFields: the relief checkbox is cleared as well.
ResetFieldsAndFlag(pg) ==
    [pg EXCEPT !.firstName = "", !.lastName = "", !.email = "",
               !.shoeType = "", !.shoeSize = "", !.lengthVal = 50,
               !.widthVal = "Medium", !.thicknessVal = "Thin",
               !.colourVal = "Black", !.realistic = FALSE]

\* The nine set-state calls that follow setRecentSubmissions.
ResetFields(pg) ==
    [pg EXCEPT !.firstName = "", !.lastName = "", !.email = "",
               !.shoeType = "", !.shoeSize = "", !.lengthVal = 50,
               !.widthVal = "Medium", !.thicknessVal = "Thin",
               !.colourVal = "Black"]

\* The nine fields of OrderData as a state of the form holds them.
FieldsOf(pg) ==
    [firstName |-> pg.firstName, lastName |-> pg.lastName, email |-> pg.email,
     shoeType |-> pg.shoeType, shoeSize |-> pg.shoeSize, lengthVal |-> pg.lengthVal,
     widthVal |-> pg.widthVal, thicknessVal |-> pg.thicknessVal,
     colourVal |-> pg.colourVal]

\* onSubmit of the form.  The browser submits only when the inputs marked
\* required are filled in.
handleSubmit ==
    /\ pc = "mounted"
    /\ \A f \in RequiredFields : page[f] # ""
    /\ Len(submitted) < user.submits
    /\ submitted' = Append(submitted, FieldsOf(page))
    /\ LET orderData == [firstName |-> page.firstName, lastName |-> page.lastName,
                         email |-> page.email, shoeType |-> page.shoeType,
                         shoeSize |-> page.shoeSize, lengthVal |-> page.lengthVal,
                         widthVal |-> page.widthVal, thicknessVal |-> page.thicknessVal,
                         colourVal |-> page.colourVal]
       IN  SetState(ResetFields([page EXCEPT
                                   !.recentSubmissions = Prepend(orderData, @)]), old)

\* onChange of the old page's second checkbox.
SetUseImportedModel ==
    /\ old # <<>>
    /\ user.toggles
    /\ SetState(page, [old EXCEPT !.useImportedModel = ~old.useImportedModel])
    /\ UNCHANGED submitted

\* The useFrame callback: state.scene.rotation.y += delta * 0.05.  rotation
\* counts the frames drawn.
Frame ==
    /\ pc \in {"mounted", "mesh"}
    /\ scene.rotation < MaxFrames
    /\ scene' = [scene EXCEPT !.rotation = @ + 1]
    /\ UNCHANGED <<page, memo, user, submitted, app, old>>
    /\ UNCHANGED callVars

\* The parent of InsoleMesh renders it with other props.
Rerender(props) ==
    /\ pc = "mesh"
    /\ RenderInsoleMesh(props)
    /\ UNCHANGED <<page, user, submitted, app, old>>
    /\ UNCHANGED callVars

NextForm ==
    \/ \E field \in TextFields : \E value \in TextValues(field) : SetText(field, value)
    \/ \E v \in 0..100 : SetLengthVal(v)
    \/ \E w \in WidthOptions : SetWidthVal(w)
    \/ \E t \in ThicknessOptions : SetThicknessVal(t)
    \/ \E c \in ColourOptions : SetColourVal(c)
    \/ SetRealistic
    \/ handleSubmit
    \/ Frame

SpecForm == InitForm /\ [][NextForm]_vars

NextPages ==
    \/ NextForm
    \/ SetUseImportedModel

SpecPages == InitPages /\ [][NextPages]_vars

\* App: the navigation bar and the routes.  app.mobileOpen is the menu
\* flag (isMenuOpen in the later version), app.route the path the router
\* is at, app.windows the number of windows window.open has opened and
\* app.last the handler of App that ran last with the flag it saw.
Routes == {"/", "/order", "/about"}

MaxWindows == 1

\* Variant of closeMenu: the flag is flipped.
closeMenuFlips(open) == ~open

\* closeMenu / handleLinkClick: the flag after the handler.
closeMenu(open) == IF open THEN FALSE ELSE open

\* <Route path="/order" element={<OrderPage />}> matches or not.
RouteRenders(route) ==
    IF route = "/order"
    THEN /\ pc' = "mounted"
         /\ page' = InitialPage
         /\ memo' = useMemo(<<>>, DepsOf(InsoleMeshProps(InitialPage)))
         /\ scene' = [geometry |-> memo'[1].value.id,
                      color |-> InsoleMeshProps(InitialPage).colorHex, rotation |-> 0]
    ELSE /\ pc' = "unmounted"
         /\ page' = <<>>
         /\ memo' = <<>>
         /\ scene' = <<>>

\* App after its first render at some path.
InitApp ==
    /\ NoCall
    /\ user \in PageUsers
    /\ app \in [mobileOpen : {FALSE}, route : Routes, windows : {0},
                 last : {[handler |-> "", saw |-> FALSE]}]
    /\ IF app.route = "/order"
       THEN /\ pc = "mounted"
            /\ page = InitialPage
            /\ MountedWith(InsoleMeshProps(InitialPage))
       ELSE /\ pc = "unmounted"
            /\ page = <<>>
            /\ memo = <<>>
            /\ scene = <<>>
    /\ submitted = <<>>
    /\ old = <<>>

\* onClick of the hamburger button.
toggleMenu ==
    /\ app # <<>>
    /\ app' = [app EXCEPT !.mobileOpen = ~@,
                          !.last = [handler |-> "toggleMenu", saw |-> app.mobileOpen]]
    /\ UNCHANGED <<pc, page, memo, scene, user, submitted, old>>
    /\ UNCHANGED <<params, shape, geom, result, prev, track, probe>>

\* A click on the NavLink to a path: its onClick handler, then the
\* navigation.  Leaving /order unmounts OrderPage and its state is lost.
ClickNavLink(to) ==
    /\ app # <<>>
    /\ app' = [app EXCEPT !.mobileOpen = closeMenu(@), !.route = to,
                          !.last = [handler |-> "closeMenu", saw |-> app.mobileOpen]]
    /\ IF to = app.route
       THEN UNCHANGED <<pc, page, memo, scene, submitted>>
       ELSE RouteRenders(to) /\ submitted' = <<>>
    /\ UNCHANGED <<user, old>>
    /\ UNCHANGED <<params, shape, geom, result, prev, track, probe>>

\* onClick of the Client Centre button: window.open(url, '_blank').
ClickClientBtn ==
    /\ app # <<>>
    /\ app.windows < MaxWindows
    /\ app' = [app EXCEPT !.windows = @ + 1,
                          !.last = [handler |-> "window.open", saw |-> app.mobileOpen]]
    /\ UNCHANGED <<pc, page, memo, scene, user, submitted, old>>
    /\ UNCHANGED <<params, shape, geom, result, prev, track, probe>>

NextApp ==
    \/ toggleMenu
    \/ \E to \in Routes : ClickNavLink(to)
    \/ ClickClientBtn
    \/ NextForm

SpecApp == InitApp /\ [][NextApp]_vars

NextMesh ==
    \/ \E props \in MeshProps : Rerender(props)
    \/ Frame

SpecMesh == InitMesh /\ [][NextMesh]_vars


(***************************************************************************)
(* Claims about the recomputation driven by the form.                      *)
(***************************************************************************)
\* The geometry InsoleMesh remembers and the arguments of its dependencies.
Remembered == memo[1].value

RememberedArgs == ArgsOf(memo[1].deps)

\* C11: over any sequence of parameter changes and toggles of the flag the
\* sculpting pass has written at most once into the remembered geometry, and
\* only into a geometry extruded for the current arguments: its position
\* version is 1 exactly when the flag is set, and 0 otherwise.
C11_SculptedAtMostOnce ==
    /\ Remembered.version <= 1
    /\ Remembered.version = 1 <=> RememberedArgs.realistic
    /\ Remembered.params = RememberedArgs

\* The flag is set, the length differs from its initial value and the
\* geometry is not the one of the first render.
C11_Witness ==
    /\ pc = "mounted"
    /\ RememberedArgs.realistic
    /\ Remembered.version = 1
    /\ Remembered.id # 0
    /\ page.lengthVal # 50

\* C12: no step writes to the geometry the <mesh> references: a step either
\* leaves that object as it was or makes the <mesh> reference another,
\* complete geometry (normals computed from its final positions).
C12_RenderedMeshNeverWritten ==
    [][/\ memo'[1].value.id = scene.geometry => memo'[1].value = Remembered
       /\ scene'.geometry = memo'[1].value.id
       /\ memo'[1].value.normal.ofVersion = memo'[1].value.version]_vars

\* A frame has been drawn of a sculpted geometry that replaced another one.
C12_Witness ==
    /\ pc = "mounted"
    /\ scene.geometry = Remembered.id
    /\ Remembered.id # 0
    /\ Remembered.version = 1
    /\ scene.rotation > 0


(***************************************************************************)
(* Claims about the mesh for width 1, length 2, thickness 0.4 with the     *)
(* flag set.                                                               *)
(***************************************************************************)
ReliefExample ==
    /\ params # <<>>
    /\ params.width = Num(1)
    /\ params.length = Num(2)
    /\ params.thickness = Frac(2, 5)
    /\ params.realistic

\* C13: the mesh returned for width 1, length 2, thickness 0.4 with the flag
\* set has a vertex at x = 0, z = 0 whose y is 0.4 * 0.8 - 0.4 * 0.10 = 0.28.
C13_HeelCentreHeight ==
    (Returned /\ ReliefExample) =>
        \E i \in DOMAIN result[1].geom.position :
           result[1].geom.position[i] = <<Num(0), Frac(7, 25), Num(0)>>

\* C14: for width 1, length 2, thickness 0.4 with the flag set, a vertex the
\* sculptor selects at x = +halfWidth or x = -halfWidth with z = 0 gets
\* y = 0.4 * 0.8 = 0.32: nothing is subtracted for the heel cup.
C14_HeelEdgeHeight ==
    (ProbeSelected /\ ReliefExample
       /\ MathAbs(probe.v[1]) = halfWidthOf(params.width)
       /\ probe.v[3] = Num(0)) =>
        probe.out[1][2] = Frac(8, 25)

C14_Witness ==
    /\ ProbeSelected
    /\ ReliefExample
    /\ probe.v[1] = RNeg(halfWidthOf(params.width))
    /\ probe.v[3] = Num(0)
    /\ probe.out[1][2] = Frac(8, 25)


\* C15: on both paths the last write to a returned geometry is a computation
\* of its normals: after the sculpting pass when the flag is set (the call at
\* the end of the branch), after the flat extrusion when it is not (the one
\* the ExtrudeGeometry constructor ends with).  The normals of every
\* returned mesh are those of its final position buffer.
C15_NormalsRecomputedLast ==
    Returned =>
        LET g == result[1].geom
        IN  /\ g.normal.computed >= 1
            /\ g.normal.ofVersion = g.version
            /\ params.realistic => g.normal.computed = 2 /\ g.version = 1

\* A sculpted mesh has been returned after the second computation.
C15_Witness ==
    /\ Returned
    /\ params.realistic
    /\ ValidDimensions(params)
    /\ result[1].geom.version = 1
    /\ result[1].geom.normal = [ofVersion |-> 1, computed |-> 2]


\* C16: in every state of the order form the dimensions computeInsoleGeometry
\* was called with are strictly positive: the width is 0.75, 1 or 1.25 for
\* Narrow, Medium, Wide, the length is 1 + 1.5 * lengthVal / 100 and lies in
\* [1, 2.5], the thickness is 0.2 for Thin and 0.4 for Thick.
C16_FormDimensionsPositive ==
    pc = "mounted" =>
        /\ ValidDimensions(RememberedArgs)
        /\ page.widthVal = "Narrow" => RememberedArgs.width = Frac(3, 4)
        /\ page.widthVal = "Medium" => RememberedArgs.width = Num(1)
        /\ page.widthVal = "Wide" => RememberedArgs.width = Frac(5, 4)
        /\ page.lengthVal \in 0..100
        /\ RememberedArgs.length = Frac(200 + 3 * page.lengthVal, 200)
        /\ RLeq(Num(1), RememberedArgs.length)
        /\ RLeq(RememberedArgs.length, Frac(5, 2))
        /\ page.thicknessVal = "Thin" => RememberedArgs.thickness = Frac(1, 5)
        /\ page.thicknessVal = "Thick" => RememberedArgs.thickness = Frac(2, 5)
        /\ Remembered.params = RememberedArgs

\* The slider is at its minimum with the narrow, thick insole.
C16_Witness ==
    /\ pc = "mounted"
    /\ page.lengthVal = 0
    /\ page.widthVal = "Narrow"
    /\ page.thicknessVal = "Thick"
    /\ RememberedArgs.length = Num(1)


(***************************************************************************)
(* Claims about refusals.                                                  *)
(***************************************************************************)
\* C17: a recomputation that is refused (its dimensions are not all
\* positive) leaves the geometry the <mesh> references unchanged: the last
\* valid geometry stays on display.
C17_RefusedKeepsMesh ==
    [][(pc = "mesh" /\ ~ValidDimensions(ArgsOf(memo'[1].deps))) =>
          /\ scene'.geometry = scene.geometry
          /\ memo'[1].value = Remembered]_vars


\* Twice the signed area enclosed by the closed polygon pts (integer points).
RECURSIVE Shoelace(_, _)
Shoelace(pts, i) ==
    IF i >= Len(pts) THEN 0
    ELSE pts[i][1] * pts[i + 1][2] - pts[i + 1][1] * pts[i][2] + Shoelace(pts, i + 1)

\* The sampled outline encloses no area: its points lie on one line parallel
\* to an axis, or the signed area of the polygon is zero.
OutlineEnclosesNoArea ==
    LET pts == SampledOutline
    IN  \/ \A i \in DOMAIN pts : pts[i][1] = pts[1][1]
        \/ \A i \in DOMAIN pts : pts[i][2] = pts[1][2]
        \/ /\ params.width # Num(0)
           /\ params.length # Num(0)
           /\ Shoelace(OutlineOnGrid, 1) = 0

\* C18: an outline whose sampling encloses no area is rejected with
\* DegenerateOutline after the outline is built and before it is extruded:
\* no geometry is made from it and the invocation returns that failure.
C18_DegenerateOutlineRejected ==
    (pc \in {"extruded", "sculpted", "normals", "idle"} /\ OutlineEnclosesNoArea) =>
        /\ geom = <<>>
        /\ Returned
        /\ result[1].kind = "DegenerateOutline"


(***************************************************************************)
(* Claims about memoization.                                               *)
(***************************************************************************)
\* The dependencies InsoleMesh is rendered with for the page pg.
PageDeps(pg) == DepsOf(InsoleMeshProps(pg))

\* C20: a step of the form calls computeInsoleGeometry exactly when one of
\* width3D, length3D, thickness3D, realistic differs from its value at the
\* previous render; a step that leaves the four unchanged (a colour change,
\* typing, a frame, a submit with the default options) keeps the same
\* geometry object.
C20_RecomputeOnlyOnChange ==
    [][pc = "mounted" =>
          IF PageDeps(page') = PageDeps(page)
          THEN memo' = memo /\ scene'.geometry = scene.geometry
          ELSE /\ memo'[1].value.id # Remembered.id
               /\ memo'[1].deps = PageDeps(page')
               /\ scene'.geometry = memo'[1].value.id]_vars

\* An order in red has been submitted and a frame drawn while the geometry
\* of the first render is still the remembered one.
C20_Witness ==
    /\ pc = "mounted"
    /\ Len(page.recentSubmissions) = 1
    /\ page.recentSubmissions[1].colourVal = "Red"
    /\ page.recentSubmissions[1].lengthVal = 50
    /\ scene.rotation > 0
    /\ Remembered.id = 0
    /\ memo[1].deps = PageDeps(InitialPage)


\* C21: after any sequence of form events the geometry the <mesh> references
\* is the one computeInsoleGeometry returns for the current width3D,
\* length3D, thickness3D and realistic of the page: no geometry computed
\* from earlier values stays on display.
C21_DisplayedMeshIsCurrent ==
    pc = "mounted" =>
        /\ scene.geometry = Remembered.id
        /\ Remembered = computeInsoleGeometry(Remembered.id, ArgsOf(PageDeps(page)))

\* An order for a wide insole was submitted with the flag set: the form is
\* back at Medium and the geometry on display is the sculpted one for width 1.
C21_Witness ==
    /\ pc = "mounted"
    /\ Len(page.recentSubmissions) = 1
    /\ page.recentSubmissions[1].widthVal = "Wide"
    /\ page.widthVal = "Medium"
    /\ page.realistic
    /\ Remembered.params.width = Num(1)
    /\ Remembered.version = 1

----------------------------------------------------------------------------
\* Claim C22.  The recent-submissions list.

AtMostFive(n) == IF n < 5 THEN n ELSE 5

\* C22: after n submissions recentSubmissions has length min(n, 5) and holds
\* the min(n, 5) most recent orders, newest first, each with the field
\* values the form held when it was submitted (before the reset).
C22_RecentSubmissionsNewestFirst ==
    pc = "mounted" =>
        LET n == Len(submitted)
        IN  /\ Len(page.recentSubmissions) = AtMostFive(n)
            /\ \A k \in 1..AtMostFive(n) :
                   page.recentSubmissions[k] = submitted[n + 1 - k]

\* Six orders have been submitted, the first in red and the last in black
\* with a shoe type: the list holds five of them and the first is gone.
C22_Witness ==
    /\ pc = "mounted"
    /\ Len(submitted) = MaxOrders
    /\ Len(page.recentSubmissions) = 5
    /\ submitted[1].colourVal = "Red"
    /\ \A k \in 1..5 : page.recentSubmissions[k].colourVal = "Black"
    /\ page.recentSubmissions[2].colourVal = "Black"
    /\ submitted[MaxOrders].firstName = "a"

----------------------------------------------------------------------------
\* Claim C23.  The reset a submit makes.

\* The step is a submit: one more order has been placed.
Submits == Len(submitted') = Len(submitted) + 1

AtDefaults(pg) ==
    /\ \A f \in TextFields : pg[f] = ""
    /\ pg.lengthVal = 50
    /\ pg.widthVal = "Medium"
    /\ pg.thicknessVal = "Thin"
    /\ pg.colourVal = "Black"

\* C23: immediately after any submit the five text fields are empty,
\* lengthVal is 50, widthVal Medium, thicknessVal Thin and colourVal Black.
C23_SubmitResetsFields == [][Submits => AtDefaults(page')]_vars

\* A long, wide, red insole has been ordered and the form is at its defaults.
C23_Witness ==
    /\ pc = "mounted"
    /\ Len(submitted) = 1
    /\ submitted[1].lengthVal = 100
    /\ submitted[1].widthVal = "Wide"
    /\ submitted[1].colourVal = "Red"
    /\ submitted[1].email = "a@b"
    /\ AtDefaults(page)

----------------------------------------------------------------------------
\* Claim C24.  What a submit leaves alone.

\* The props of the preview at the default dimensions with the given flag.
DefaultProps(realistic) == InsoleMeshProps([InitialPage EXCEPT !.realistic = realistic])

\* The preview on display has the dimensions of props: the imported model
\* is scaled by them, or the mesh has the geometry computed for them.
Previews(sc, cell, props) ==
    IF "primitive" \in DOMAIN sc
    THEN sc.scale = <<props.width3D, props.length3D, props.thickness3D>>
    ELSE /\ sc.geometry = cell[1].value.id
         /\ cell[1].value = computeInsoleGeometry(sc.geometry, ArgsOf(DepsOf(props)))

\* C24: a submit leaves the 'Realistic Insole' toggle, and on the old page
\* the 'Use Imported Blender Model' toggle, as they were; after it the
\* preview shows the default dimensions with the relief flag as before.
C24_SubmitKeepsToggles ==
    [][Submits =>
        /\ page'.realistic = page.realistic
        /\ old' = old
        /\ Previews(scene', memo', DefaultProps(page.realistic))]_vars

\* On the old page, with the relief on and the imported model switched off,
\* a wide insole has been ordered: both switches are as they were and the
\* mesh on display is the one for the default width.
C24_Witness ==
    /\ pc = "mounted"
    /\ old # <<>>
    /\ ~old.useImportedModel
    /\ page.realistic
    /\ Len(submitted) = 1
    /\ submitted[1].widthVal = "Wide"
    /\ AtDefaults(page)
    /\ "geometry" \in DOMAIN scene
    /\ Remembered.params.width = DefaultProps(TRUE).width3D

----------------------------------------------------------------------------
\* Claim C26.  The old page's choice between the imported and the
\* procedural model.

\* C26: the old InsoleMesh renders the imported GLTF exactly when
\* useImportedModel is true and the loaded GLTF has a scene; otherwise it
\* renders the mesh of computeInsoleGeometry for the current parameters.
C26_ImportedIffToggledAndLoaded ==
    (pc = "mounted" /\ old # <<>>) =>
        IF old.useImportedModel /\ old.gltf # <<>> /\ old.gltf.scene
        THEN /\ "primitive" \in DOMAIN scene
             /\ scene.primitive = "gltf.scene.children[0]"
        ELSE /\ "geometry" \in DOMAIN scene
             /\ scene.geometry = Remembered.id
             /\ Remembered = computeInsoleGeometry(Remembered.id, ArgsOf(PageDeps(page)))

\* The import switch is on but the loaded GLTF has no scene: the mesh for a
\* wide insole is on display.
C26_Witness ==
    /\ pc = "mounted"
    /\ old # <<>>
    /\ old.useImportedModel
    /\ old.gltf = [scene |-> FALSE]
    /\ page.widthVal = "Wide"
    /\ "geometry" \in DOMAIN scene
    /\ Remembered.params.width = InsoleMeshProps(page).width3D

----------------------------------------------------------------------------
\* Claim C25.  The mobile menu flag.

\* C25: the menu flag changes only by the hamburger button, which flips it,
\* and by a nav-link click, which sets it to closed: after any nav-link
\* click the menu is closed, and a link click while it is closed leaves the
\* flag as it was.
C25_MenuFlag ==
    [][/\ app'.mobileOpen # app.mobileOpen =>
              (toggleMenu \/ \E to \in Routes : ClickNavLink(to))
       /\ toggleMenu => app'.mobileOpen = ~app.mobileOpen
       /\ \A to \in Routes :
              ClickNavLink(to) =>
                  /\ ~app'.mobileOpen
                  /\ ~app.mobileOpen => app'.mobileOpen = app.mobileOpen]_vars

\* The Order link has been clicked with the menu open: the menu is closed
\* and the order page is on display.
C25_Witness ==
    /\ app.last = [handler |-> "closeMenu", saw |-> TRUE]
    /\ ~app.mobileOpen
    /\ app.route = "/order"
    /\ pc = "mounted"

----------------------------------------------------------------------------
\* Claim C27.  A second pass of the sculpting loop.

\* C27: the sculpting pass is idempotent on its own output: the vertex loop
\* applied a second time with the same width, length and thickness leaves
\* every vertex where the first pass put it.
C27_SculptIdempotent ==
    (pc = "probe" /\ Len(probe.out) >= 2) =>
        \A k \in 2..Len(probe.out) : probe.out[k] = probe.out[1]

\* A vertex just above the top plane, three tenths along, was moved onto
\* the plane by the first pass and is selected again by the second.
C27_Witness ==
    /\ pc = "probe"
    /\ Len(probe.out) = 2
    /\ probe.out[1] # probe.v
    /\ SelectedBySculptor(probe.v, params.thickness)
    /\ SelectedBySculptor(probe.out[1], params.thickness)
    /\ probe.out[2] = probe.out[1]

----------------------------------------------------------------------------
\* Claim C28.  The range of the heights the sculptor writes.

----------------------------------------------------------------------------
\* Claim C29.  The box the outline stays in.

\* C29: for valid width and length every sampled point (x, z) of the outline
\* has |x| <= 0.5 halfWidth and 0 <= z <= length, so that for it
\* clamp(z / length, 0, 1) is z / length and the heel-cup factor
\* 1 - min(|x| / halfWidth, 1) is at least 0.5.
C29_OutlineWithinBox ==
    (pc = "shaped" /\ ValidDimensions(params)) =>
        LET hw == halfWidthOf(params.width)
            pts == SampledOutline
        IN  \A i \in DOMAIN pts :
               /\ RLeq(MathAbs(pts[i][1]), RMul(Tenths(5), hw))
               /\ RLeq(Num(0), pts[i][2])
               /\ RLeq(pts[i][2], params.length)
               /\ LengthParam(pts[i][2], params.length) = RDiv(pts[i][2], params.length)
               /\ RLeq(Frac(1, 2), HeelCupFactor(pts[i][1], hw))

\* The outline of a valid insole has been built: it touches the box at the
\* ball, half of the half width out, and at the toe, at the full length.
C29_Witness ==
    /\ pc = "shaped"
    /\ ValidDimensions(params)
    /\ \E i \in DOMAIN SampledOutline :
           /\ SampledOutline[i][1] = RMul(Tenths(5), halfWidthOf(params.width))
           /\ HeelCupFactor(SampledOutline[i][1], halfWidthOf(params.width)) = Frac(1, 2)
    /\ \E i \in DOMAIN SampledOutline : SampledOutline[i][2] = params.length

====
